---- MODULE Spec2Model ----
(***************************************************************************)
(* A model of the AWMF-0108 beam-steering demo: the BeamDefinition class   *)
(* of src/beamdef.py (phase-field construction, quantisation, calibration, *)
(* gain field, array-factor sampling, and the lazily computed fields that  *)
(* setAntenna invalidates) and the SPI part of MyApp of src/BeamDemo.py.   *)
(*                                                                         *)
(* Numbers.  The code computes in floating point.  The model computes in   *)
(* fixed point:                                                            *)
(*   - an angle in radians is an integer number of ticks, 2*pi being       *)
(*     PhaseControlMax ticks, so one hardware phase step (2*pi/32) is      *)
(*     Interval = 4 ticks and half a step is 2 ticks;                      *)
(*   - a length is an integer number of units, the wavelength being        *)
(*     WaveLength units, so the default spacing 5.4 mm at 28 GHz           *)
(*     (10.7 mm) is DefaultSpacing = 32 units;                             *)
(*   - cos and sin of a tick angle are taken from a table scaled by        *)
(*     FxOne = 1024, and a magnitude |a| is kept as its square.            *)
(* Steering and observation angles are drawn from the angles whose sines   *)
(* and cosines are exact in this arithmetic.                               *)
(***************************************************************************)
EXTENDS Integers, Sequences, FiniteSets

\* quadrant indexes (beamdef.py 19-22)
NW == "NW"
SW == "SW"
SE == "SE"
NE == "NE"
Quadrants == {NE, SE, SW, NW}

\* the order of the public result (beamdef.py 134)
CanonicalOrder == <<NE, SE, SW, NW>>

\* AWMF-0108 constants (beamdef.py 56-57); 2*pi is PhaseControlMax ticks
PhaseControlRange == 32
PhaseControlMax == 128

\* the wavelength of the steering request, in length units (beamdef.py 53)
WaveLength == 64

\* 5.4 mm in length units (beamdef.py 76)
DefaultSpacing == 32

\* largest beamStrength: the attenuation code is 31 - beamStrength
MaxBeamStrength == 31

----------------------------------------------------------------------------
\* Bounds of the model

\* the widest element spacing setAntenna is given, in length units
MaxSpacing == 57
\* _radiansToAwmf0108 is applied to every angle in -MaxRads..MaxRads ticks
MaxRads == 300

Pi == PhaseControlMax \div 2

Abs(x) == IF x < 0 THEN -x ELSE x

----------------------------------------------------------------------------
\* Phase quantiser

\* Python 3 round() of the quotient x / multiple: to the nearest integer, a
\* tie to the even one.  x >= 0 here.
Round(x, multiple) ==
  LET q == x \div multiple
      r == x % multiple
  IN  IF 2 * r < multiple THEN q
      ELSE IF 2 * r > multiple THEN q + 1
      ELSE IF q % 2 = 0 THEN q ELSE q + 1

RoundToNearest(x, multiple) == multiple * Round(x, multiple)

\* the same without the fix that turns 32 into 0
RadiansToAwmf0108NoWrap(rads) ==
  LET interval == PhaseControlMax \div PhaseControlRange
      fixed == rads % (2 * Pi)
  IN  RoundToNearest(fixed, interval) \div interval

RadiansToAwmf0108(rads) ==
  LET interval == PhaseControlMax \div PhaseControlRange
      fixed == rads % (2 * Pi)
      val == RoundToNearest(fixed, interval) \div interval
  IN  IF val = PhaseControlRange THEN 0 ELSE val

----------------------------------------------------------------------------
\* Calibration.  A calibration map is a function from some quadrants to a
\* table, a table being the sequence of <<setting, offset>> pairs in the
\* order the mapping iterates them.  None and the empty map are both the
\* function with no quadrant: Python's `if calMap:` treats them alike.

NoCal == [q \in {} |-> <<>>]
CalNEOnly == [q \in {NE} |-> << <<10, 2>> >>]
CalFull == [q \in Quadrants |-> << <<16, -2>>, <<0, 3>>, <<24, 1>> >>]

\* the files loadPhaseCal can find
CalFiles == {NoCal, CalNEOnly, CalFull}

\* min(table.keys(), key=lambda x: abs(x - setting)): the first pair, in
\* iteration order, whose setting is nearest
ClosestSetting(table, setting) ==
  LET dist(i) == Abs(table[i][1] - setting)
      best == CHOOSE i \in 1..Len(table) :
                \A j \in 1..Len(table) :
                  dist(i) < dist(j) \/ (dist(i) = dist(j) /\ i <= j)
  IN  table[best]

\* the exception _applyCalibration raises, "none" when it returns
CalibrationError(quadrant, calMap) ==
  IF DOMAIN calMap = {} THEN "none"
  ELSE IF quadrant \notin DOMAIN calMap THEN "KeyError"
  ELSE IF Len(calMap[quadrant]) = 0 THEN "ValueError"
  ELSE "none"

\* its value when it returns (the setting is evaluated once, as the
\* argument of a call is)
ApplyCalibration(quadrant, setting, calMap) ==
  IF DOMAIN calMap = {} THEN setting
  ELSE LET corrected(s) ==
             (s - ClosestSetting(calMap[quadrant], s)[2]) % PhaseControlRange
       IN  CHOOSE r \in {corrected(s) : s \in {setting}} : TRUE

----------------------------------------------------------------------------
\* Trigonometry in fixed point

\* 1024 * cos(2*pi*k/128) for k = 0..32
CosQ == << 1024, 1023, 1019, 1013, 1004, 993, 980, 964, 946, 926, 903, 878,
           851, 822, 792, 759, 724, 688, 650, 610, 569, 526, 483, 438, 392,
           345, 297, 249, 200, 150, 100, 50, 0 >>

FxOne == CosQ[1]

CosFx(ticks) ==
  LET a == ticks % PhaseControlMax
      quarter == PhaseControlMax \div 4
  IN  IF a <= quarter THEN CosQ[a + 1]
      ELSE IF a <= 2 * quarter THEN -CosQ[2 * quarter - a + 1]
      ELSE IF a <= 3 * quarter THEN -CosQ[a - 2 * quarter + 1]
      ELSE CosQ[4 * quarter - a + 1]

SinFx(ticks) == CosFx(ticks - PhaseControlMax \div 4)

\* sin and cos of a multiple of 90 degrees
SinDeg(deg) ==
  LET a == deg % 360
  IN  IF a = 90 THEN 1 ELSE IF a = 270 THEN -1 ELSE 0

CosDeg(deg) == SinDeg(deg + 90)

\* 2 * sin(theta) for the polar angles of the model
Thetas == {0, 30}
Phis == {0, 90}

Sin2(deg) == IF deg = 30 THEN 1 ELSE IF deg = -30 THEN -1 ELSE 0

----------------------------------------------------------------------------
\* Antenna geometry (beamdef.py 64-76, BeamDemo.py 157-163)

Grid1x4 == << <<NE, NW, SE, SW>> >>
Grid2x2 == << <<NW, NE>>, <<SW, SE>> >>
Grid1x2 == << <<NE, NW>> >>
Invert1x4 == << <<TRUE, FALSE, TRUE, FALSE>> >>
Invert2x2 == << <<TRUE, FALSE>>, <<TRUE, FALSE>> >>
Invert2x4 == << <<TRUE, FALSE, TRUE, FALSE>>, <<TRUE, FALSE, TRUE, FALSE>> >>

\* what callers of setAntenna pass
Grids == {Grid1x4, Grid2x2, Grid1x2}
InvertPatterns == {Invert1x4, Invert2x2, Invert2x4}
Spacings == {DefaultSpacing, MaxSpacing}
BeamStrengths == {0, 1, MaxBeamStrength}

Rows(a) == Len(a)
Cols(a) == Len(a[1])

\* two 2D arrays have the same dimensions
SameDims(a, b) ==
  /\ Rows(a) = Rows(b)
  /\ \A i \in 1..Rows(a) : Len(a[i]) = Len(b[i])

\* every index of the grid is an index of the 2D array a
Readable(grid, a) ==
  /\ Rows(a) >= Rows(grid)
  /\ \A i \in 1..Rows(grid) : Len(a[i]) >= Cols(grid)

----------------------------------------------------------------------------
\* Coordinate projection and phase field (beamdef.py 99-129)

\* k * d in ticks, k = 2*pi / waveLength
KDist(d) == (PhaseControlMax * d) \div WaveLength

\* -k * d * sin(atan(sin(p) * sin(t) / cos(t))): for p a multiple of 90
\* degrees the axis angle is t, -t or 0
EwPhaseOffset(t, p, d) == 0 - ((KDist(d) * SinDeg(p) * Sin2(t)) \div 2)
NsPhaseOffset(t, p, d) == 0 - ((KDist(d) * CosDeg(p) * Sin2(t)) \div 2)

\* the cumulative sums of lines 113-121
Offsets(grid, t, p, d) ==
  LET ew == EwPhaseOffset(t, p, d)
      ns == NsPhaseOffset(t, p, d)
      first[i \in 1..Rows(grid)] == IF i = 1 THEN 0 ELSE first[i - 1] + ns
      row(i) ==
        LET cell[j \in 1..Cols(grid)] ==
              IF j = 1 THEN first[i] ELSE cell[j - 1] + ew
        IN  cell
  IN  [i \in 1..Rows(grid) |-> row(i)]

\* lines 126-129 without the addition of pi
NoInversion(offsets, grid, invert) ==
  [i \in 1..Rows(grid) |-> [j \in 1..Cols(grid) |-> offsets[i][j]]]

\* lines 126-129: pi is added where the element's feed is inverted
ApplyInversion(offsets, grid, invert) ==
  [i \in 1..Rows(grid) |-> [j \in 1..Cols(grid) |->
     IF invert[i][j] THEN offsets[i][j] + Pi ELSE offsets[i][j]]]

HasLabel(label, grid) ==
  \E i \in 1..Rows(grid) : \E j \in 1..Cols(grid) : grid[i][j] = label

\* dict(zip(labels, values)) [label]: of the cells that carry the label, the
\* last one in row-major order
LabelOffset(label, grid, field) ==
  LET at == {c \in (1..Rows(grid)) \X (1..Cols(grid)) : grid[c[1]][c[2]] = label}
      last == CHOOSE c \in at : \A o \in at :
                o[1] < c[1] \/ (o[1] = c[1] /\ o[2] <= c[2])
  IN  field[last[1]][last[2]]

\* the exception getPhaseSettings raises when it computes, "none" when it
\* returns: line 128 reads the mask at every index of the grid; line 134
\* looks up each quadrant of the canonical order and calibrates it
PhaseError(grid, invert, calMap) ==
  LET errAt(k) ==
        IF ~HasLabel(CanonicalOrder[k], grid) THEN "KeyError"
        ELSE CalibrationError(CanonicalOrder[k], calMap)
      bad == {k \in 1..Len(CanonicalOrder) : errAt(k) # "none"}
  IN  IF ~Readable(grid, invert) THEN "IndexError"
      ELSE IF bad = {} THEN "none"
      ELSE errAt(CHOOSE k \in bad : \A o \in bad : k <= o)

\* lines 132-134
ComputePhaseSettings(grid, invert, t, p, d, calMap) ==
  LET field == ApplyInversion(Offsets(grid, t, p, d), grid, invert)
  IN  [k \in 1..Len(CanonicalOrder) |->
         ApplyCalibration(CanonicalOrder[k],
                          RadiansToAwmf0108(LabelOffset(CanonicalOrder[k], grid, field)),
                          calMap)]

\* getPhaseSettings() on an object with the given fields: the exception
\* ("none": it returns), the value returned, and the two fields it assigns
PhaseCall(grid, invert, t, p, d, calMap, settings, raw) ==
  IF Len(settings) > 0
  THEN [err |-> "none", val |-> settings, settings |-> settings, raw |-> raw]
  ELSE LET err == PhaseError(grid, invert, calMap)
           offsets == Offsets(grid, t, p, d)
       IN  IF err # "none"
           THEN [err |-> err, val |-> <<>>, settings |-> settings, raw |-> offsets]
           ELSE LET n == ComputePhaseSettings(grid, invert, t, p, d, calMap)
                IN  [err |-> "none", val |-> n, settings |-> n, raw |-> offsets]

\* getRawPhaseSettings() likewise
RawCall(grid, invert, t, p, d, calMap, settings, raw) ==
  IF Len(raw) = 0
  THEN LET c == PhaseCall(grid, invert, t, p, d, calMap, settings, raw)
       IN  [err |-> c.err, val |-> IF c.err = "none" THEN c.raw ELSE <<>>,
            settings |-> c.settings, raw |-> c.raw]
  ELSE [err |-> "none", val |-> raw, settings |-> settings, raw |-> raw]

\* getRelativeGain(): the exception, the value, and the field it assigns
GainCall(grid, strength, gain) ==
  IF Len(gain) > 0
  THEN [err |-> "none", val |-> gain, gain |-> gain]
  ELSE IF strength = 0
  THEN [err |-> "ZeroDivisionError", val |-> <<>>, gain |-> gain]
  ELSE LET g == [x \in 1..Rows(grid) |-> [y \in 1..Cols(grid) |->
                   strength \div strength]]
       IN  [err |-> "none", val |-> g, gain |-> g]

----------------------------------------------------------------------------
\* Array factor sampling (beamdef.py 184-253)

\* the requests generateAllAF is given; absAf keeps its default, True
AfRequests ==
  { [n_theta |-> 1, n_phi |-> 1, backLobes |-> FALSE],
    [n_theta |-> 1, n_phi |-> 4, backLobes |-> FALSE],
    [n_theta |-> 2, n_phi |-> 4, backLobes |-> TRUE] }

\* |_calculateArrayFactor(theta, phi, I, d, waveLength)| squared, in units of
\* FxOne^2: the sum over the cells of the current grid, in row-major order
ArrayFactorSq(grid, dist, thetaDeg, phiDeg, I, d) ==
  LET cols == Cols(grid)
      count == Rows(grid) * cols
      n(c) == (c - 1) \div cols
      m(c) == (c - 1) % cols
      costerm(c) == KDist(dist) * n(c) * SinDeg(thetaDeg) * CosDeg(phiDeg)
      sinterm(c) == KDist(dist) * m(c) * SinDeg(thetaDeg) * SinDeg(phiDeg)
      angle(c) == d[n(c) + 1][m(c) + 1] + costerm(c) + sinterm(c)
      re[c \in 0..count] ==
        IF c = 0 THEN 0 ELSE re[c - 1] + I[n(c) + 1][m(c) + 1] * CosFx(angle(c))
      im[c \in 0..count] ==
        IF c = 0 THEN 0 ELSE im[c - 1] + I[n(c) + 1][m(c) + 1] * SinFx(angle(c))
  IN  re[count] * re[count] + im[count] * im[count]

\* the points of lines 209-223, theta outermost, each with its squared
\* magnitude
SamplePoints(grid, dist, req, I, d) ==
  LET t_max == IF req.backLobes THEN 180 ELSE 90
      t_d == t_max \div req.n_theta
      p_d == 360 \div req.n_phi
      count == req.n_theta * req.n_phi
      t(c) == ((c - 1) \div req.n_phi) * t_d
      p(c) == ((c - 1) % req.n_phi) * p_d
  IN  [c \in 1..count |->
         [t |-> t(c), p |-> p(c), a |-> ArrayFactorSq(grid, dist, t(c), p(c), I, d)]]

\* |af_max| squared after the loop: af_max starts at -1 (line 207) and is
\* replaced by a point whose magnitude is larger (lines 218-219)
AfMax(points) ==
  LET best[c \in 0..Len(points)] ==
        IF c = 0 THEN FxOne * FxOne
        ELSE IF points[c].a > best[c - 1] THEN points[c].a ELSE best[c - 1]
  IN  best[Len(points)]

\* lines 225-228.  A returned magnitude is the square root of num / den:
\* a / abs(af_max) when normalized, a itself otherwise
AfResult(points, normalized) ==
  LET den == IF normalized THEN AfMax(points) ELSE FxOne * FxOne
  IN  [c \in 1..Len(points) |->
         [t |-> points[c].t, p |-> points[c].p, num |-> points[c].a, den |-> den]]

----------------------------------------------------------------------------
\* State

VARIABLES
  \* BeamDefinition
  theta, phi, beamStrength, phaseCal,
  antennaGrid, antennaInvert, antennaSpacing,
  phaseSettings, phaseSettingsRaw, gainSettings,
  \* the last call on the BeamDefinition: its name, its arguments, the
  \* exception it raised ("none": it returned) and the value it returned
  ret,
  \* the last direct call of a private conversion function
  fnCall,
  \* MyApp
  thetaBox, phiBox, radio2x2, aGrid, aInvertPattern,
  spiConnected, programButton, spiStatusLabel, lockedPhase,
  \* the hardware: the last beam written, and how the last progSpi ended
  \* ("failed", "written", or "recovered": written, the one before failed)
  chipBeam, lastProg

bdVars == <<theta, phi, beamStrength, phaseCal, antennaGrid, antennaInvert,
            antennaSpacing, phaseSettings, phaseSettingsRaw, gainSettings, ret>>
appVars == <<thetaBox, phiBox, radio2x2, aGrid, aInvertPattern, spiConnected,
             programButton, spiStatusLabel, lockedPhase, chipBeam, lastProg>>
vars == <<bdVars, fnCall, appVars>>

Return(op, args, err, val) == [op |-> op, args |-> args, err |-> err, val |-> val]

\* BeamDefinition.__init__ (beamdef.py 35-84)
BeamInit(t, p, strength, calMap) ==
  /\ theta = t
  /\ phi = p
  /\ beamStrength = strength
  /\ phaseCal = calMap
  /\ antennaGrid = Grid1x4
  /\ antennaInvert = Invert1x4
  /\ antennaSpacing = DefaultSpacing
  /\ phaseSettings = <<>>
  /\ phaseSettingsRaw = <<>>
  /\ gainSettings = <<>>
  /\ ret = Return("__init__", <<>>, "none", <<>>)

FnIdle == fnCall = [fn |-> "none", args |-> <<>>, err |-> "none", out |-> <<>>]

\* MyApp before its constructor runs (BeamDemo.py 36-39)
AppIdle ==
  /\ thetaBox = 0
  /\ phiBox = 0
  /\ radio2x2 = FALSE
  /\ aGrid = Grid1x4
  /\ aInvertPattern = Invert1x4
  /\ spiConnected = FALSE
  /\ programButton = FALSE
  /\ spiStatusLabel = ""
  /\ lockedPhase = <<>>
  /\ chipBeam = <<>>
  /\ lastProg = "none"

----------------------------------------------------------------------------
\* The operations of BeamDefinition

\* setAntenna without the two assignments that force recalculation
SetAntennaKeepCache(grid, invertPattern, spacing) ==
  /\ antennaGrid' = grid
  /\ antennaSpacing' = spacing
  /\ antennaInvert' = invertPattern
  /\ ret' = Return("setAntenna", <<grid, invertPattern, spacing>>, "none", <<>>)
  /\ UNCHANGED <<theta, phi, beamStrength, phaseCal, phaseSettings,
                 phaseSettingsRaw, gainSettings, fnCall, appVars>>

\* beamdef.py 170-181
SetAntenna(grid, invertPattern, spacing) ==
  /\ antennaGrid' = grid
  /\ antennaSpacing' = spacing
  /\ antennaInvert' = invertPattern
  /\ phaseSettings' = <<>>
  /\ gainSettings' = <<>>
  /\ ret' = Return("setAntenna", <<grid, invertPattern, spacing>>, "none", <<>>)
  /\ UNCHANGED <<theta, phi, beamStrength, phaseCal, phaseSettingsRaw, fnCall,
                 appVars>>

\* what a call finds on entry: whether phaseSettings is filled (the call
\* returns it) and whether an earlier call has left a raw phase field
Found == <<Len(phaseSettings) > 0, Len(phaseSettingsRaw) > 0>>

\* beamdef.py 87-138
GetPhaseSettings ==
  LET c == PhaseCall(antennaGrid, antennaInvert, theta, phi, antennaSpacing,
                     phaseCal, phaseSettings, phaseSettingsRaw)
  IN  /\ phaseSettings' = c.settings
      /\ phaseSettingsRaw' = c.raw
      /\ ret' = Return("getPhaseSettings", Found, c.err, c.val)
      /\ UNCHANGED <<theta, phi, beamStrength, phaseCal, antennaGrid,
                     antennaInvert, antennaSpacing, gainSettings, fnCall,
                     appVars>>

\* beamdef.py 140-151
GetRawPhaseSettings ==
  LET c == RawCall(antennaGrid, antennaInvert, theta, phi, antennaSpacing,
                   phaseCal, phaseSettings, phaseSettingsRaw)
  IN  /\ phaseSettings' = c.settings
      /\ phaseSettingsRaw' = c.raw
      /\ ret' = Return("getRawPhaseSettings", <<>>, c.err, c.val)
      /\ UNCHANGED <<theta, phi, beamStrength, phaseCal, antennaGrid,
                     antennaInvert, antennaSpacing, gainSettings, fnCall,
                     appVars>>

\* beamdef.py 153-165
GetRelativeGain ==
  LET c == GainCall(antennaGrid, beamStrength, gainSettings)
  IN  /\ gainSettings' = c.gain
      /\ ret' = Return("getRelativeGain", <<>>, c.err, c.val)
      /\ UNCHANGED <<theta, phi, beamStrength, phaseCal, antennaGrid,
                     antennaInvert, antennaSpacing, phaseSettings,
                     phaseSettingsRaw, fnCall, appVars>>

\* beamdef.py 184-228.  The first pass of the loop calls getRelativeGain()
\* and then getRawPhaseSettings() (line 211); the later passes find both
\* fields cached.  _calculateArrayFactor indexes both arrays at every index
\* of the current grid (lines 246-251).
GenerateAllAF(req, normalized) ==
  LET g == GainCall(antennaGrid, beamStrength, gainSettings)
      r == RawCall(antennaGrid, antennaInvert, theta, phi, antennaSpacing,
                   phaseCal, phaseSettings, phaseSettingsRaw)
      args == <<req, normalized>>
  IN  /\ UNCHANGED <<theta, phi, beamStrength, phaseCal, antennaGrid,
                     antennaInvert, antennaSpacing, fnCall, appVars>>
      /\ gainSettings' = g.gain
      /\ IF g.err # "none"
         THEN /\ UNCHANGED <<phaseSettings, phaseSettingsRaw>>
              /\ ret' = Return("generateAllAF", args, g.err, <<>>)
         ELSE /\ phaseSettings' = r.settings
              /\ phaseSettingsRaw' = r.raw
              /\ IF r.err # "none"
                 THEN ret' = Return("generateAllAF", args, r.err, <<>>)
                 ELSE IF ~(Readable(antennaGrid, g.val) /\ Readable(antennaGrid, r.val))
                 THEN ret' = Return("generateAllAF", args, "IndexError", <<>>)
                 ELSE ret' = Return("generateAllAF", args, "none",
                        AfResult(SamplePoints(antennaGrid, antennaSpacing, req,
                                              g.val, r.val), normalized))

Next ==
  \/ \E grid \in Grids, invertPattern \in InvertPatterns, spacing \in Spacings :
       SetAntenna(grid, invertPattern, spacing)
  \/ GetPhaseSettings
  \/ GetRawPhaseSettings
  \/ GetRelativeGain
  \/ \E req \in AfRequests, normalized \in BOOLEAN : GenerateAllAF(req, normalized)

\* a BeamDefinition under any sequence of calls
Init ==
  /\ \E t \in Thetas, p \in Phis, strength \in BeamStrengths, calMap \in CalFiles :
       BeamInit(t, p, strength, calMap)
  /\ FnIdle
  /\ AppIdle

Spec == Init /\ [][Next]_vars

----------------------------------------------------------------------------
\* The private conversion functions called on their own

Settings == 0..(PhaseControlRange - 1)

CallRadiansToAwmf0108(rads) ==
  /\ fnCall' = [fn |-> "_radiansToAwmf0108", args |-> <<rads>>, err |-> "none",
                out |-> <<RadiansToAwmf0108(rads)>>]
  /\ UNCHANGED <<bdVars, appVars>>

CallApplyCalibration(quadrant, setting, calMap) ==
  LET err == CalibrationError(quadrant, calMap)
  IN  /\ fnCall' = [fn |-> "_applyCalibration", args |-> <<quadrant, setting, calMap>>,
                    err |-> err,
                    out |-> IF err = "none"
                            THEN <<ApplyCalibration(quadrant, setting, calMap)>>
                            ELSE <<>>]
      /\ UNCHANGED <<bdVars, appVars>>

FnInit ==
  /\ BeamInit(0, 0, 1, NoCal)
  /\ FnIdle
  /\ AppIdle

FnNext ==
  \/ \E rads \in (-MaxRads)..MaxRads : CallRadiansToAwmf0108(rads)
  \/ \E quadrant \in Quadrants, setting \in Settings, calMap \in CalFiles :
       CallApplyCalibration(quadrant, setting, calMap)

FnSpec == FnInit /\ [][FnNext]_vars

----------------------------------------------------------------------------
\* MyApp (BeamDemo.py).  The transport AwmfCommander is outside the
\* program: each of its calls either returns or raises SpiInitException.

NotDetected == "SPI interposer not detected"

\* BeamDemo.py 65-77, called by the constructor and by the timer
TryConnectSPI(ok) ==
  /\ ~spiConnected
  /\ IF ok
     THEN /\ spiConnected' = TRUE
          /\ spiStatusLabel' = ""
          /\ UNCHANGED programButton
     ELSE /\ spiStatusLabel' = NotDetected
          /\ spiConnected' = FALSE
          /\ programButton' = FALSE
  /\ UNCHANGED <<thetaBox, phiBox, radio2x2, aGrid, aInvertPattern, lockedPhase,
                 chipBeam, lastProg, bdVars, fnCall>>

\* BeamDemo.py 99-125: a new BeamDefinition over the inputs, setAntenna,
\* getPhaseSettings.  An exception of getPhaseSettings leaves the slot
\* before any assignment.
LockBeam ==
  LET c == PhaseCall(aGrid, aInvertPattern, thetaBox, phiBox, DefaultSpacing,
                     phaseCal, <<>>, <<>>)
  IN  /\ c.err = "none"
      /\ lockedPhase' = c.val
      /\ programButton' = IF spiConnected THEN TRUE ELSE programButton
      /\ UNCHANGED <<thetaBox, phiBox, radio2x2, aGrid, aInvertPattern,
                     spiConnected, spiStatusLabel, chipBeam, lastProg, bdVars,
                     fnCall>>

\* progSpi with a handler that also drops the locked settings
ProgSpiDropsLock(ok) ==
  /\ programButton
  /\ IF ok
     THEN /\ chipBeam' = lockedPhase
          /\ lastProg' = IF lastProg = "failed" THEN "recovered" ELSE "written"
          /\ UNCHANGED <<spiStatusLabel, spiConnected, programButton, lockedPhase>>
     ELSE /\ spiStatusLabel' = NotDetected
          /\ spiConnected' = FALSE
          /\ programButton' = FALSE
          /\ lockedPhase' = <<>>
          /\ lastProg' = "failed"
          /\ UNCHANGED chipBeam
  /\ UNCHANGED <<thetaBox, phiBox, radio2x2, aGrid, aInvertPattern, bdVars, fnCall>>

\* BeamDemo.py 136-148, the slot of the program button
ProgSpi(ok) ==
  /\ programButton
  /\ IF ok
     THEN /\ chipBeam' = lockedPhase
          /\ lastProg' = IF lastProg = "failed" THEN "recovered" ELSE "written"
          /\ UNCHANGED <<spiStatusLabel, spiConnected, programButton>>
     ELSE /\ spiStatusLabel' = NotDetected
          /\ spiConnected' = FALSE
          /\ programButton' = FALSE
          /\ lastProg' = "failed"
          /\ UNCHANGED chipBeam
  /\ UNCHANGED <<thetaBox, phiBox, radio2x2, aGrid, aInvertPattern, lockedPhase,
                 bdVars, fnCall>>

\* BeamDemo.py 150-167, the slot of the two radio buttons
SetAntennaType(is2x2) ==
  /\ radio2x2' = is2x2
  /\ programButton' = FALSE
  /\ aGrid' = IF is2x2 THEN Grid2x2 ELSE Grid1x4
  /\ aInvertPattern' = IF is2x2 THEN Invert2x2 ELSE Invert1x4
  /\ phiBox' = IF is2x2 THEN phiBox ELSE 90
  /\ UNCHANGED <<thetaBox, spiConnected, spiStatusLabel, lockedPhase, chipBeam,
                 lastProg, bdVars, fnCall>>

\* the operator turns the theta box, or the phi box while it is enabled
\* (BeamDemo.py 48-49, 160, 166)
SetThetaBox(v) ==
  /\ thetaBox' = v
  /\ UNCHANGED <<phiBox, radio2x2, aGrid, aInvertPattern, spiConnected,
                 programButton, spiStatusLabel, lockedPhase, chipBeam, lastProg,
                 bdVars, fnCall>>

SetPhiBox(v) ==
  /\ radio2x2
  /\ phiBox' = v
  /\ UNCHANGED <<thetaBox, radio2x2, aGrid, aInvertPattern, spiConnected,
                 programButton, spiStatusLabel, lockedPhase, chipBeam, lastProg,
                 bdVars, fnCall>>

\* MyApp.__init__ (BeamDemo.py 31-63): tryConnectSPI, then setAntennaType
AppInit ==
  /\ \E calMap \in CalFiles : BeamInit(0, 0, 1, calMap)
  /\ FnIdle
  /\ thetaBox \in Thetas
  /\ radio2x2 \in BOOLEAN
  /\ phiBox \in IF radio2x2 THEN Phis ELSE {90}
  /\ aGrid = IF radio2x2 THEN Grid2x2 ELSE Grid1x4
  /\ aInvertPattern = IF radio2x2 THEN Invert2x2 ELSE Invert1x4
  /\ spiConnected \in BOOLEAN
  /\ spiStatusLabel = IF spiConnected THEN "" ELSE NotDetected
  /\ programButton = FALSE
  /\ lockedPhase = <<>>
  /\ chipBeam = <<>>
  /\ lastProg = "none"

AppNext ==
  \/ \E ok \in BOOLEAN : TryConnectSPI(ok)
  \/ LockBeam
  \/ \E ok \in BOOLEAN : ProgSpi(ok)
  \/ \E is2x2 \in BOOLEAN : SetAntennaType(is2x2)
  \/ \E v \in Thetas : SetThetaBox(v)
  \/ \E v \in Phis : SetPhiBox(v)

\* The timer calls tryConnectSPI every second (BeamDemo.py 43-45).  That
\* the transport answers again, and that the operator presses the two
\* buttons again, is what "can retry" is about: under these conditions
\* every run retries, so from every reachable state some run does.
AppFairSpec ==
  /\ AppInit
  /\ [][AppNext]_vars
  /\ WF_vars(TryConnectSPI(TRUE))
  /\ WF_vars(LockBeam)
  /\ SF_vars(ProgSpi(TRUE))

----------------------------------------------------------------------------
\* Properties

\* the entry of a phase-settings result that belongs to a quadrant
SettingOf(result, label) ==
  result[CHOOSE k \in 1..Len(CanonicalOrder) : CanonicalOrder[k] = label]

\* what getPhaseSettings() returns on an object with the current geometry
\* and nothing computed yet
Fresh ==
  PhaseCall(antennaGrid, antennaInvert, theta, phi, antennaSpacing, phaseCal,
            <<>>, <<>>)

\* C1: whenever the grid and the inversion mask have the same dimensions,
\* getPhaseSettings() returns 4 integers in 0..31, the k-th being the
\* calibrated setting of the k-th quadrant of [NE, SE, SW, NW], whatever the
\* steering request and the calibration table.
C1_PhaseSettingsWellFormed ==
  (ret.op = "getPhaseSettings" /\ SameDims(antennaGrid, antennaInvert)) =>
    /\ ret.err = "none"
    /\ Len(ret.val) = 4
    /\ \A k \in 1..4 : ret.val[k] \in Settings
    /\ ret.val = ComputePhaseSettings(antennaGrid, antennaInvert, theta, phi,
                                      antennaSpacing, phaseCal)

\* C2: in every state a getPhaseSettings() call returns (or raises) what a
\* computation from scratch over the current geometry returns (or raises),
\* and so did the call that has just returned: a repeated call returns the
\* cached result unchanged, and the first call after setAntenna() follows
\* the new geometry.
C2_CacheFollowsGeometry ==
  LET next == PhaseCall(antennaGrid, antennaInvert, theta, phi, antennaSpacing,
                        phaseCal, phaseSettings, phaseSettingsRaw)
  IN  /\ next.err = Fresh.err
      /\ next.val = Fresh.val
      /\ ret.op = "getPhaseSettings" => (ret.err = Fresh.err /\ ret.val = Fresh.val)

\* C2 witness: a getPhaseSettings() call that found the cache emptied by
\* setAntenna() after an earlier computation has returned, over the wide
\* spacing, a result that differs from the one of the default spacing.
C2_RecomputedAfterSetAntenna ==
  /\ ret.op = "getPhaseSettings"
  /\ ret.args = <<FALSE, TRUE>>
  /\ ret.err = "none"
  /\ antennaSpacing = MaxSpacing
  /\ ret.val # PhaseCall(antennaGrid, antennaInvert, theta, phi, DefaultSpacing,
                         phaseCal, <<>>, <<>>).val

\* C3: the raw phase field getRawPhaseSettings() returns is the one of the
\* current geometry and has the grid's dimensions, and the gain field
\* getRelativeGain() returns has the grid's dimensions.
C3_FieldsFollowGeometry ==
  /\ (ret.op = "getRawPhaseSettings" /\ ret.err = "none") =>
       /\ SameDims(ret.val, antennaGrid)
       /\ ret.val = Offsets(antennaGrid, theta, phi, antennaSpacing)
  /\ (ret.op = "getRelativeGain" /\ ret.err = "none") =>
       SameDims(ret.val, antennaGrid)

\* the scenario of C4: theta = 0, phi = 0, the 1x4 grid [NE, NW, SE, SW],
\* the mask [true, false, true, false], no calibration, and
\* getPhaseSettings() has returned
C4_Scenario ==
  /\ theta = 0
  /\ phi = 0
  /\ antennaGrid = Grid1x4
  /\ antennaInvert = Invert1x4
  /\ phaseCal = NoCal
  /\ ret.op = "getPhaseSettings"
  /\ ret.err = "none"

\* C4 as stated: in the scenario every raw phase is 0, NE and SW get
\* setting 16, NW and SE get setting 0.
C4_AsStated ==
  C4_Scenario =>
    /\ phaseSettingsRaw = << <<0, 0, 0, 0>> >>
    /\ SettingOf(ret.val, NE) = 16
    /\ SettingOf(ret.val, SW) = 16
    /\ SettingOf(ret.val, NW) = 0
    /\ SettingOf(ret.val, SE) = 0

\* C4 amended: in the scenario every raw phase is 0, the inverted elements
\* NE and SE get setting 16, and NW and SW get setting 0.
C4_InvertedElementsGet16 ==
  C4_Scenario =>
    /\ phaseSettingsRaw = << <<0, 0, 0, 0>> >>
    /\ SettingOf(ret.val, NE) = 16
    /\ SettingOf(ret.val, SE) = 16
    /\ SettingOf(ret.val, NW) = 0
    /\ SettingOf(ret.val, SW) = 0

\* C4 witness: the scenario with the default spacing
C4_ScenarioReached == C4_Scenario /\ antennaSpacing = DefaultSpacing

\* C5: when generateAllAF(normalized=True) returns and some sample is not
\* zero, every magnitude has been divided by the largest magnitude of the
\* sampled set, so the largest returned magnitude is 1.
C5_NormalizedPeakIsOne ==
  (/\ ret.op = "generateAllAF"
   /\ ret.err = "none"
   /\ ret.args[2]
   /\ \E c \in 1..Len(ret.val) : ret.val[c].num > 0) =>
    /\ \A c \in 1..Len(ret.val) : ret.val[c].num <= ret.val[c].den
    /\ \E c \in 1..Len(ret.val) : ret.val[c].num = ret.val[c].den

\* C6: _applyCalibration(X, q, table) returns (q - offset[k]) mod 32 for a
\* key k of X's table nearest to q when the table has entries for X, and
\* returns q when there is no table or the table has no entry for X.
C6_CalibrationOrIdentity ==
  fnCall.fn = "_applyCalibration" =>
    LET quadrant == fnCall.args[1]
        q == fnCall.args[2]
        calMap == fnCall.args[3]
    IN  /\ fnCall.err = "none"
        /\ IF quadrant \in DOMAIN calMap /\ Len(calMap[quadrant]) > 0
           THEN LET table == calMap[quadrant]
                IN  \E k \in 1..Len(table) :
                      /\ \A j \in 1..Len(table) :
                           Abs(table[k][1] - q) <= Abs(table[j][1] - q)
                      /\ fnCall.out = <<(q - table[k][2]) % 32>>
           ELSE fnCall.out = <<q>>

\* C7: getPhaseSettings() produces no result from a grid and an inversion
\* mask whose dimensions differ.
C7_NoResultFromMismatch ==
  (ret.op = "getPhaseSettings" /\ ~SameDims(antennaGrid, antennaInvert)) =>
    (ret.err # "none" /\ ret.val = <<>>)

\* C8: getRelativeGain() returns, for every beamStrength in 0..31, an array
\* with the grid's dimensions whose entries are all 1.
C8_GainIsOne ==
  ret.op = "getRelativeGain" =>
    /\ ret.err = "none"
    /\ SameDims(ret.val, antennaGrid)
    /\ \A i \in 1..Len(ret.val) : \A j \in 1..Len(ret.val[i]) : ret.val[i][j] = 1

\* C9: a progSpi whose write fails reports it and leaves the locked
\* settings as they were, and after a failed write the program reaches a
\* state in which the locked settings have been written to the hardware.
C9_FailedWriteCanBeRetried ==
  /\ [][ProgSpi(FALSE) =>
          /\ lockedPhase' = lockedPhase
          /\ spiStatusLabel' = NotDetected
          /\ lockedPhase' # <<>>]_vars
  /\ (lastProg = "failed") ~> (lastProg = "recovered" /\ chipBeam = lockedPhase)

\* C9 witness: after a failed write the transport was connected again, the
\* beam was locked again and the locked settings were written.
C9_WrittenAfterFailure ==
  /\ lastProg = "recovered"
  /\ chipBeam = lockedPhase
  /\ lockedPhase # <<>>
  /\ spiConnected
  /\ programButton

====
